---- MODULE Spec2Model ----
(***************************************************************************)
(* Verification model of contextflow's graph synchronisation core:         *)
(*   - src/src/integrations/github/client.py     (rate-limited retry)      *)
(*   - src/src/integrations/github/models.py     (response -> domain)      *)
(*   - src/src/integrations/github/collector.py  (GitHub collectors)       *)
(*   - src/src/integrations/jira/collector.py    (Jira collector)          *)
(*                                                                         *)
(* Three specifications share the module:                                  *)
(*   Spec       the graph store under the Cypher statements the collectors *)
(*              issue, one action per loop iteration of a collector;       *)
(*   SpecRetry  GitHubClient._retry_on_exception, one action per attempt;  *)
(*   SpecOrch   collect_github_data / collect_repository_data and          *)
(*              JiraCollector.collect_project_epics_and_stories as         *)
(*              processes, with the client calls as the code makes them.   *)
(***************************************************************************)
EXTENDS Integers, Sequences, FiniteSets, Bags, TLC

(***************************************************************************)
(* Bounds of the model.                                                    *)
(***************************************************************************)
\* the graph is explored up to this many nodes
MaxNodes == 3
\* longest upstream batch (issues, epics, ...) a whole collection run is given
MaxBatch == 2

\* longest scope list one call of collect_github_data is given
MaxScopes == 2

\* no wrapped call starts, and no idle time passes, after this clock reading
MaxClock == 2

(***************************************************************************)
(* Values.                                                                 *)
(***************************************************************************)
\* Python's None / Cypher's null
None == "None"

\* config/github_config.py
GITHUB_LABEL_REPOSITORY == "GitHubRepository"
GITHUB_LABEL_ISSUE == "GitHubIssue"
GITHUB_LABEL_PROJECT == "GitHubProject"
GITHUB_LABEL_MILESTONE == "GitHubMilestone"
REL_BELONGS_TO == "BELONGS_TO"
REL_HOSTED_IN == "HOSTED_IN"
GITHUB_MAX_RETRIES == 3
GITHUB_RETRY_DELAY == 1

\* scopes ("owner/repo") and the ids the remote hands out
RepoNames == {"acme/widgets", "acme/gears"}
RepoIds == {1, 2}
IssueIds == {1, 2}
ProjectIds == {1}
MilestoneIds == {1}
EpicKeys == {"PROJ-1", "PROJ-3"}
StoryKeys == {"PROJ-2"}

\* ISO-8601 strings as the remote sends them; "bad" is not ISO-8601
TimestampStrings == {"T1Z", "T1+00:00", "bad"}

(***************************************************************************)
(* Entity models: models.py                                                *)
(***************************************************************************)
\* str.replace('Z', '+00:00') on the timestamp strings of the model
ReplaceZ(s) ==
    IF s = "T1Z" THEN "T1+00:00" ELSE s

\* datetime.fromisoformat accepts the string
IsIsoFormat(s) == s \in {"T1+00:00"}

\* datetime.fromisoformat(s.replace('Z', '+00:00')): the aware datetime, written
\* as its isoformat(); "ValueError" when the string does not parse
FromIso(s) ==
    IF IsIsoFormat(ReplaceZ(s)) THEN ReplaceZ(s) ELSE "ValueError"

\* "... if self.closed_at else None"
OptFromIso(s) ==
    IF s = None THEN None ELSE FromIso(s)

\* a pattern that every state matches
StatePatternAny(state) == TRUE

\* Field(..., pattern="^(open|closed)$")
StatePattern(state) == state \in {"open", "closed"}

\* the states the remote may report; "merged" is outside the pattern
RemoteStates == {"open", "closed", "merged"}

Ok(v) == [error |-> None, value |-> v]

Raise(e) == [error |-> e, value |-> <<>>]

\* GitHubRepositoryResponse: what get_repository returns
RepositoryResponses == [id : RepoIds, full_name : RepoNames]

\* GitHubIssueResponse: an issue's number never changes upstream, and the
\* remote reports closed_at exactly for a closed issue
IssueStates ==
    {<<"open", None>>, <<"closed", "T1Z">>, <<"closed", "T1+00:00">>,
     <<"merged", None>>, <<"closed", "bad">>}

\* the collectors are given issues without labels and assignees
IssueResponses ==
    {[id |-> i, number |-> i + 6, title |-> "Crash on save", state |-> s[1],
      closed_at |-> s[2], labels |-> <<>>, assignees |-> <<>>] :
        i \in IssueIds, s \in IssueStates}

ProjectResponses == [id : ProjectIds, name : {"Roadmap"}, state : RemoteStates]

\* GitHubMilestoneResponse: state and due_on as the remote reports them
MilestoneStates ==
    {<<"open", None>>, <<"open", "T1Z">>, <<"closed", "T1Z">>, <<"merged", None>>,
     <<"open", "bad">>}

MilestoneResponses ==
    {[id |-> i, title |-> "v1", state |-> s[1], due_on |-> s[2]] :
        i \in MilestoneIds, s \in MilestoneStates}

\* GitHubRepositoryResponse.to_repository
to_repository(r) == Ok([id |-> r.id, full_name |-> r.full_name])

\* GitHubIssue(...), GitHubProject(...), GitHubMilestone(...): construction
\* of a domain record from field values; state: str = Field(..., pattern=...)
GitHubIssue(fields) ==
    IF ~StatePattern(fields.state) THEN Raise("ValidationError") ELSE Ok(fields)

GitHubProject(fields) ==
    IF ~StatePattern(fields.state) THEN Raise("ValidationError") ELSE Ok(fields)

GitHubMilestone(fields) ==
    IF ~StatePattern(fields.state) THEN Raise("ValidationError") ELSE Ok(fields)

\* dict.get(key, default)
Get(d, key, default) == IF key \in DOMAIN d THEN d[key] ELSE default

\* the values in reverse order
ValuesOfReversed(objects, key) ==
    [i \in DOMAIN objects |-> Get(objects[Len(objects) + 1 - i], key, "")]

\* [label.get("name", "") for label in self.labels]
ValuesOf(objects, key) == [i \in DOMAIN objects |-> Get(objects[i], key, "")]

\* GitHubIssueResponse.to_issue: the arguments are evaluated (fromisoformat)
\* before GitHubIssue validates them
to_issue(r) ==
    IF OptFromIso(r.closed_at) = "ValueError" THEN Raise("ValueError")
    ELSE GitHubIssue([id |-> r.id, number |-> r.number, title |-> r.title,
                      state |-> r.state, closed_at |-> OptFromIso(r.closed_at),
                      labels |-> ValuesOf(r.labels, "name"),
                      assignees |-> ValuesOf(r.assignees, "login")])

\* GitHubProjectResponse.to_project
to_project(r) == GitHubProject([id |-> r.id, name |-> r.name, state |-> r.state])

\* GitHubMilestoneResponse.to_milestone
to_milestone(r) ==
    IF OptFromIso(r.due_on) = "ValueError" THEN Raise("ValueError")
    ELSE GitHubMilestone([id |-> r.id, title |-> r.title, state |-> r.state,
                          due_on |-> OptFromIso(r.due_on)])

\* raw Jira issue data: key, fields.summary, fields.status.name, fields.parent.key
JiraEpicData == [key : EpicKeys, summary : {"Checkout"}, parent : {None}]

JiraStoryData == [key : StoryKeys, summary : {"Pay", "Pay by card"}, parent : EpicKeys \cup {None}]

\* JiraCollector._parse_issue
_parse_issue(d) == [key |-> d.key, summary |-> d.summary, parent_key |-> d.parent]

(***************************************************************************)
(* The graph store.  A node bag per label and an edge bag per integration; *)
(* a bag counts copies, so a duplicate node or edge is a count of 2.  An   *)
(* edge names its end nodes by label and identity key.                     *)
(***************************************************************************)
EmptyGraph ==
    [repo |-> EmptyBag, issue |-> EmptyBag, project |-> EmptyBag,
     milestone |-> EmptyBag, epic |-> EmptyBag, story |-> EmptyBag,
     rel |-> EmptyBag, jrel |-> EmptyBag]

NodeCount(g) ==
    BagCardinality(g.repo) + BagCardinality(g.issue) + BagCardinality(g.project)
    + BagCardinality(g.milestone) + BagCardinality(g.epic) + BagCardinality(g.story)

\* the copies of bag b left after removing the elements in set S
Without(b, S) == [e \in (DOMAIN b) \ S |-> b[e]]

\* MERGE ... ON CREATE SET: a matched node keeps the properties it has
MergeByIdOnCreate(b, id, rec) ==
    IF \E e \in DOMAIN b : e.id = id THEN b ELSE b (+) SetToBag({rec})

\* MERGE (n:L {id: $id}) SET n.<every property> = ...: every node matching the
\* key takes the new properties; one node is created when none matches
MergeById(b, id, rec) ==
    LET matched == {e \in DOMAIN b : e.id = id}
        copies == BagCardinality([e \in matched |-> b[e]])
    IN  IF matched = {} THEN b (+) SetToBag({rec})
        ELSE Without(b, matched) (+) [e \in {rec} |-> copies]

\* CREATE (n:L {key: $key}) SET ...: a node is created whatever the graph holds
CreateByKey(b, key, rec) == b (+) SetToBag({rec})

\* MERGE (n:L {key: $key}) SET ...
MergeByKey(b, key, rec) ==
    LET matched == {e \in DOMAIN b : e.key = key}
        copies == BagCardinality([e \in matched |-> b[e]])
    IN  IF matched = {} THEN b (+) SetToBag({rec})
        ELSE Without(b, matched) (+) [e \in {rec} |-> copies]

\* CREATE (a)-[:T]->(b) for every matched row
CreateEdges(b, es) == b (+) SetToBag(es)

\* MERGE (a)-[:T]->(b) for every matched row: an edge is created only where
\* none of that type joins the pair
MergeEdges(b, es) == b (+) SetToBag({e \in es : ~BagIn(e, b)})

\* collect_repository: MERGE (r:GitHubRepository {id: $id}) SET ...
RepositoryStatement(g, repository) ==
    [g EXCEPT !.repo = MergeById(@, repository.id,
                           [id |-> repository.id, full_name |-> repository.full_name])]

\* MATCH (r:GitHubRepository {full_name: $repo_name}): the matched rows
MatchRepository(g, repo_name) == {r \in DOMAIN g.repo : r.full_name = repo_name}

\* the statement without its last clause: the node is merged, no edge is
ChildStatementNoEdge(g, field, label, type, repo_name, p) ==
    IF {r \in DOMAIN g.repo : r.full_name = repo_name} = {} THEN g
    ELSE [g EXCEPT ![field] = MergeById(@, p.id, p)]

\* the statement shared by collect_issues / collect_projects /
\* collect_milestones: MATCH (r) MERGE (n {id}) SET ... MERGE (n)-[:T]->(r).
\* With no matched row the rest of the statement does not run.
ChildStatement(g, field, label, type, repo_name, p) ==
    LET rows == MatchRepository(g, repo_name)
    IN  IF rows = {} THEN g
        ELSE [g EXCEPT ![field] = MergeById(@, p.id, p),
                       !.rel = MergeEdges(@,
                           {[type |-> type, label |-> label, from |-> p.id, to |-> r.id] :
                               r \in rows})]

\* i.closed_at = CASE WHEN $closed_at IS NOT NULL THEN datetime($closed_at) ELSE null END
CaseNotNull(param) == IF param # None THEN param ELSE None

\* the SET clause of collect_issues and its parameters
IssueProperties(issue) ==
    [id |-> issue.id, number |-> issue.number, title |-> issue.title,
     state |-> issue.state, closed_at |-> CaseNotNull(issue.closed_at)]

IssueStatement(g, repo_name, issue) ==
    ChildStatement(g, "issue", GITHUB_LABEL_ISSUE, REL_BELONGS_TO, repo_name,
                   IssueProperties(issue))

\* the SET clause of collect_projects
ProjectProperties(project) ==
    [id |-> project.id, name |-> project.name, state |-> project.state]

ProjectStatement(g, repo_name, project) ==
    ChildStatement(g, "project", GITHUB_LABEL_PROJECT, REL_HOSTED_IN, repo_name,
                   ProjectProperties(project))

\* the SET clause of collect_milestones
MilestoneProperties(milestone) ==
    [id |-> milestone.id, title |-> milestone.title, state |-> milestone.state,
     due_on |-> CaseNotNull(milestone.due_on)]

MilestoneStatement(g, repo_name, milestone) ==
    ChildStatement(g, "milestone", GITHUB_LABEL_MILESTONE, REL_BELONGS_TO, repo_name,
                   MilestoneProperties(milestone))

\* _store_epics_and_stories: MERGE (e:Epic {key: $key}) SET ...
EpicStatement(g, epic) ==
    [g EXCEPT !.epic = MergeByKey(@, epic.key, [key |-> epic.key, summary |-> epic.summary])]

\* MERGE (s:Story {key: $key}) SET ...
StoryStatement(g, story) ==
    [g EXCEPT !.story = MergeByKey(@, story.key, [key |-> story.key, summary |-> story.summary])]

\* an edge statement that merges nothing
StoryEdgeStatementNoMerge(g, story_key, epic_key) == g

\* MATCH (s:Story {key: $story_key}), (e:Epic {key: $epic_key})
\* MERGE (s)-[:BELONGS_TO]->(e)
StoryEdgeStatement(g, story_key, epic_key) ==
    LET rows == {e \in DOMAIN g.epic : e.key = epic_key}
                \X {s \in DOMAIN g.story : s.key = story_key}
    IN  [g EXCEPT !.jrel = MergeEdges(@,
            {[type |-> REL_BELONGS_TO, story |-> row[2].key, epic |-> row[1].key] :
                row \in rows})]

\* one iteration of the story loop: the node statement, then the edge
\* statement "if story.parent_key"
\* statements names the statements sent, in order
StoryIterationStatements(g, story) ==
    LET g1 == StoryStatement(g, story)
    IN  IF story.parent_key # None
        THEN [graph |-> StoryEdgeStatement(g1, story.key, story.parent_key),
              statements |-> <<"story", "edge">>]
        ELSE [graph |-> g1, statements |-> <<"story">>]

(***************************************************************************)
(* State.                                                                  *)
(***************************************************************************)
VARIABLES
    graph,      \* the graph store
    last,       \* the last collector step: what it upserted and what it replaced
    clock,                  \* time.time()
    _rate_limit_remaining,  \* GitHubClient._rate_limit_remaining: <<>> is None
    _rate_limit_reset,      \* GitHubClient._rate_limit_reset: <<>> is None
    retry,      \* the running _retry_on_exception call
    orch,       \* the running collect_github_data call
    schema,     \* the constraints and indexes of the store, and the last ensure-schema call
    c4,         \* the architecture nodes and edges of the store
    conv        \* the last conversion of a response record

storeVars == <<graph, last>>

clientVars == <<clock, _rate_limit_remaining, _rate_limit_reset, retry>>

archVars == <<schema, c4, conv>>

vars ==
    <<graph, last, clock, _rate_limit_remaining, _rate_limit_reset, retry, orch, schema, c4,
      conv>>

NoStep ==
    [op |-> "none", upserted |-> FALSE, existed |-> FALSE, record |-> <<>>, old |-> <<>>,
     error |-> None, id |-> <<>>, parents |-> {}, new_edge |-> FALSE, statements |-> <<>>]

\* the step's record: the node with id `id` as bag b held it before the step;
\* error is what the conversion raised, parents the parent nodes the
\* statement matched, new_edge whether the step added an edge, statements the
\* statements it sent
StepById(op, b, id, did, rec, error, parents, new_edge, statements) ==
    LET was == {e \in DOMAIN b : e.id = id}
    IN  [op |-> op, upserted |-> did, existed |-> did /\ was # {},
         record |-> IF did THEN rec ELSE <<>>,
         old |-> IF did /\ was # {} THEN CHOOSE e \in was : TRUE ELSE <<>>,
         error |-> error, id |-> IF error = None THEN <<id>> ELSE <<>>,
         parents |-> parents, new_edge |-> new_edge, statements |-> statements]

StepByKey(op, b, key, did, rec, error, parents, new_edge, statements) ==
    LET was == {e \in DOMAIN b : e.key = key}
    IN  [op |-> op, upserted |-> did, existed |-> did /\ was # {},
         record |-> IF did THEN rec ELSE <<>>,
         old |-> IF did /\ was # {} THEN CHOOSE e \in was : TRUE ELSE <<>>,
         error |-> error, id |-> IF error = None THEN <<key>> ELSE <<>>,
         parents |-> parents, new_edge |-> new_edge, statements |-> statements]

(***************************************************************************)
(* SpecRetry: GitHubClient._retry_on_exception (client.py).  One action is *)
(* one pass of the for loop: the rate-limit gate, the call of func, and    *)
(* the handling of what it returned or raised.                             *)
(***************************************************************************)
\* what one call of func does: return, raise GithubException(status, text),
\* or raise another exception
FuncOutcomes ==
    {[kind |-> "ok", status |-> 200, rate_limit_text |-> FALSE],
     [kind |-> "Exception", status |-> 0, rate_limit_text |-> FALSE]}
    \cup [kind : {"GithubException"}, status : {403, 404, 500}, rate_limit_text : BOOLEAN]

\* the rate-limit metadata of the last response as the Github object holds
\* it: requests remaining, request limit, and the time of the reset
RateLimitMetadata == [remaining : {0, 7}, limit : {0, 6}, resettime : {6, 9}]

\* after the call: <<>> when self.github has no attribute rate_limiting
\* (AttributeError), else <<m>> with m the metadata
RateLimitings == {<<>>} \cup {<<m>> : m \in RateLimitMetadata}

\* the property Github.rate_limiting: (requests remaining, request limit);
\* the reset time is the separate property rate_limiting_resettime
rate_limiting(m) == <<m.remaining, m.limit>>

Max(a, b) == IF a >= b THEN a ELSE b

RECURSIVE Pow2(_)
Pow2(n) == IF n = 0 THEN 1 ELSE 2 * Pow2(n - 1)

\* e.status == 403 and 'rate limit' in str(e).lower()
IsRateLimitErrorAnyText(e) == e.status = 403

IsRateLimitError(e) == e.status = 403 /\ e.rate_limit_text

\* elif e.status >= 500
IsServerErrorAbove(e) == e.status > 500

IsServerError(e) == e.status >= 500

\* a delay that grows by GITHUB_RETRY_DELAY with each attempt
BackoffLinear(attempt) == GITHUB_RETRY_DELAY * (attempt + 1)

\* GITHUB_RETRY_DELAY * (2 ** attempt)
Backoff(attempt) == GITHUB_RETRY_DELAY * Pow2(attempt)

\* _handle_rate_limit: the seconds it sleeps
GateSleepNegativeOnly(remaining, reset, now) ==
    IF remaining # <<>> /\ remaining[1] < 0 /\ reset # <<>> /\ reset[1] # 0
    THEN Max(0, reset[1] - now)
    ELSE 0

GateSleep(remaining, reset, now) ==
    IF remaining # <<>> /\ remaining[1] <= 0 /\ reset # <<>> /\ reset[1] # 0
    THEN Max(0, reset[1] - now)
    ELSE 0

NoError == [type |-> "none", cause |-> <<>>]

\* the functions handed to _retry_on_exception: _get_repo is a plain function
\* and does its requests when called ("eager"); _get_issues, _get_projects
\* and _get_milestones contain yield, so calling them only makes a generator,
\* and their requests run when the caller iterates over it ("lazy")
RetriedFuncs == {"eager", "lazy"}

\* retry.pc: "idle" before the first call, "running" inside the loop,
\* "returned" / "raised" once the call has ended.  For a lazy func, consumed
\* tells whether the returned generator was iterated ("no", "exhausted",
\* "raised"), fetches counts the runs of its body and consumer is the
\* exception the iteration raised to its caller; metadata is what
\* self.github.rate_limiting could read after the successful call
IdleRetry ==
    [pc |-> "idle", attempt |-> 0, calls |-> 0, outcomes |-> <<>>, sleeps |-> <<>>,
     gate |-> <<>>, error |-> NoError, func |-> "eager", consumed |-> "no",
     fetches |-> 0, consumer |-> NoError, metadata |-> <<>>]

InitClient ==
    /\ clock = 0
    /\ _rate_limit_remaining = <<>>
    /\ _rate_limit_reset = <<>>
    /\ retry = IdleRetry

\* a caller enters _retry_on_exception(func)
RetryCall(func) ==
    /\ retry.pc # "running"
    /\ clock <= MaxClock
    /\ retry' = [IdleRetry EXCEPT !.pc = "running", !.func = func]
    /\ UNCHANGED <<clock, _rate_limit_remaining, _rate_limit_reset>>
    /\ UNCHANGED <<storeVars, orch, archVars>>

\* time passes between calls
Tick ==
    /\ retry.pc # "running"
    /\ clock < MaxClock
    /\ clock' = clock + 1
    /\ UNCHANGED <<_rate_limit_remaining, _rate_limit_reset, retry>>
    /\ UNCHANGED <<storeVars, orch, archVars>>

\* a cache set back to unknown
CacheOnRaiseCleared(remaining, reset) == <<<<>>, <<>>>>

\* the cache after a pass in which func raised: the two assignments follow
\* the call inside the try and are not reached, and no except clause assigns
CacheOnRaise(remaining, reset) == <<remaining, reset>>

\* a range with one value more
InRangeOneMore(attempt) == attempt <= GITHUB_MAX_RETRIES

\* "for attempt in range(GITHUB_MAX_RETRIES)": the loop has a pass for attempt
InRange(attempt) == attempt < GITHUB_MAX_RETRIES

\* one pass of "for attempt in range(GITHUB_MAX_RETRIES)" in which func ends as
\* `out` and, on success, self.github.rate_limiting reads `limits`
Attempt(out, limits) ==
    LET attempt == retry.attempt
        gate_sleep == GateSleep(_rate_limit_remaining, _rate_limit_reset, clock)
        issued_at == clock + gate_sleep
        gate == <<[remaining |-> _rate_limit_remaining, reset |-> _rate_limit_reset,
                   slept |-> gate_sleep, issued_at |-> issued_at]>>
        called == [retry EXCEPT !.calls = @ + 1, !.outcomes = Append(@, out),
                                !.gate = gate]
        \* time.sleep(backoff), then the next pass; after the last pass the
        \* loop ends and line 92 raises RuntimeError
        slept == [called EXCEPT !.sleeps = Append(@, Backoff(attempt)),
                                !.attempt = attempt + 1]
        backoff == IF InRange(attempt + 1) THEN slept
                   ELSE [slept EXCEPT !.pc = "raised",
                                      !.error = [type |-> "RuntimeError", cause |-> <<>>]]
        \* a bare "raise": the caught exception itself leaves the wrapper
        reraise == [called EXCEPT !.pc = "raised",
                                  !.error = [type |-> out.kind, cause |-> <<out>>]]
    IN  /\ retry.pc = "running"
        /\ InRange(attempt)
        \* calling a generator function runs none of its body
        /\ retry.func = "lazy" => out.kind = "ok"
        /\ UNCHANGED <<storeVars, orch, archVars>>
        /\ IF out.kind = "ok"
           THEN /\ retry' = [called EXCEPT !.pc = "returned", !.metadata = limits]
                /\ clock' = issued_at
                /\ IF limits # <<>>
                   THEN LET rate_limit == rate_limiting(limits[1])
                        IN  /\ _rate_limit_remaining' = <<rate_limit[1]>>
                            /\ _rate_limit_reset' = <<rate_limit[2]>>
                   ELSE UNCHANGED <<_rate_limit_remaining, _rate_limit_reset>>
           ELSE /\ limits = <<>>
                /\ _rate_limit_remaining' =
                       CacheOnRaise(_rate_limit_remaining, _rate_limit_reset)[1]
                /\ _rate_limit_reset' =
                       CacheOnRaise(_rate_limit_remaining, _rate_limit_reset)[2]
                /\ IF out.kind = "GithubException"
                   THEN IF IsRateLimitError(out) \/ IsServerError(out)
                        THEN /\ retry' = backoff
                             /\ clock' = issued_at + Backoff(attempt)
                        ELSE /\ retry' = reraise
                             /\ clock' = issued_at
                   ELSE IF attempt < GITHUB_MAX_RETRIES - 1
                        THEN /\ retry' = slept
                             /\ clock' = issued_at + Backoff(attempt)
                        ELSE /\ retry' = reraise
                             /\ clock' = issued_at

\* "for issue in self._retry_on_exception(_get_issues): yield issue", iterated
\* by the caller of get_issues: the body of the generator runs now, outside
\* _retry_on_exception, and ends as `out`; an exception goes to the caller
Consume(out) ==
    /\ retry.pc = "returned"
    /\ retry.func = "lazy"
    /\ retry.consumed = "no"
    /\ retry' = IF out.kind = "ok"
                THEN [retry EXCEPT !.consumed = "exhausted", !.fetches = @ + 1]
                ELSE [retry EXCEPT !.consumed = "raised", !.fetches = @ + 1,
                                   !.consumer = [type |-> out.kind, cause |-> <<out>>]]
    /\ UNCHANGED <<clock, _rate_limit_remaining, _rate_limit_reset>>
    /\ UNCHANGED <<storeVars, orch, archVars>>

NextRetry ==
    \/ \E func \in RetriedFuncs : RetryCall(func)
    \/ \E out \in FuncOutcomes : Consume(out)
    \/ Tick
    \/ \E out \in FuncOutcomes, limits \in RateLimitings : Attempt(out, limits)

(***************************************************************************)
(* Spec: the store under the collectors' statements.  Each action is one   *)
(* iteration of a collector's loop (conversion, then the statement) for a  *)
(* record the client yielded; a run over a batch is a sequence of them.    *)
(***************************************************************************)
InitStore ==
    /\ graph = EmptyGraph
    /\ last = NoStep

\* collect_repository with the remote answering resp
CollectRepository(scope, resp) ==
    LET repository == to_repository(resp).value
        g == RepositoryStatement(graph, repository)
    IN  /\ NodeCount(g) <= MaxNodes
        /\ graph' = g
        /\ UNCHANGED <<clientVars, orch, archVars>>
        /\ last' = StepById("repository", graph.repo, repository.id, TRUE, repository,
                            None, {}, FALSE, <<"repository">>)

\* one iteration of collect_issues' loop
IssueIteration(scope, resp) ==
    LET issue == to_issue(resp)
        did == issue.error = None /\ MatchRepository(graph, scope) # {}
        g == IF issue.error = None THEN IssueStatement(graph, scope, issue.value) ELSE graph
    IN  /\ NodeCount(g) <= MaxNodes
        /\ graph' = g
        /\ UNCHANGED <<clientVars, orch, archVars>>
        /\ last' = StepById("issue", graph.issue, resp.id, did, issue.value, issue.error,
                            IF issue.error = None
                            THEN {r.id : r \in MatchRepository(graph, scope)} ELSE {},
                            g.rel # graph.rel, IF issue.error = None THEN <<"issue">> ELSE <<>>)

\* one iteration of collect_projects' loop
ProjectIteration(scope, resp) ==
    LET project == to_project(resp)
        did == project.error = None /\ MatchRepository(graph, scope) # {}
        g == IF project.error = None THEN ProjectStatement(graph, scope, project.value) ELSE graph
    IN  /\ NodeCount(g) <= MaxNodes
        /\ graph' = g
        /\ UNCHANGED <<clientVars, orch, archVars>>
        /\ last' = StepById("project", graph.project, resp.id, did, project.value, project.error,
                            IF project.error = None
                            THEN {r.id : r \in MatchRepository(graph, scope)} ELSE {},
                            g.rel # graph.rel, IF project.error = None THEN <<"project">> ELSE <<>>)

\* one iteration of collect_milestones' loop
MilestoneIteration(scope, resp) ==
    LET milestone == to_milestone(resp)
        did == milestone.error = None /\ MatchRepository(graph, scope) # {}
        g == IF milestone.error = None THEN MilestoneStatement(graph, scope, milestone.value) ELSE graph
    IN  /\ NodeCount(g) <= MaxNodes
        /\ graph' = g
        /\ UNCHANGED <<clientVars, orch, archVars>>
        /\ last' = StepById("milestone", graph.milestone, resp.id, did, milestone.value, milestone.error,
                            IF milestone.error = None
                            THEN {r.id : r \in MatchRepository(graph, scope)} ELSE {},
                            g.rel # graph.rel, IF milestone.error = None THEN <<"milestone">> ELSE <<>>)

\* one iteration of the epic loop of _store_epics_and_stories
EpicIteration(epic) ==
    LET g == EpicStatement(graph, epic)
    IN  /\ NodeCount(g) <= MaxNodes
        /\ graph' = g
        /\ UNCHANGED <<clientVars, orch, archVars>>
        /\ last' = StepByKey("epic", graph.epic, epic.key, TRUE, epic, None, {}, FALSE,
                             <<"epic">>)

\* one iteration of the story loop of _store_epics_and_stories
StoryIteration(story) ==
    LET r == StoryIterationStatements(graph, story)
        g == r.graph
    IN  /\ NodeCount(g) <= MaxNodes
        /\ graph' = g
        /\ UNCHANGED <<clientVars, orch, archVars>>
        /\ last' = StepByKey("story", graph.story, story.key, TRUE, story, None,
                             {k \in {story.parent_key} : \E e \in DOMAIN graph.epic : e.key = k},
                             g.jrel # graph.jrel, r.statements)

Next ==
    \/ \E scope \in RepoNames, resp \in RepositoryResponses : CollectRepository(scope, resp)
    \/ \E scope \in RepoNames, resp \in IssueResponses : IssueIteration(scope, resp)
    \/ \E scope \in RepoNames, resp \in ProjectResponses : ProjectIteration(scope, resp)
    \/ \E scope \in RepoNames, resp \in MilestoneResponses : MilestoneIteration(scope, resp)
    \/ \E d \in JiraEpicData : EpicIteration(_parse_issue(d))
    \/ \E d \in JiraStoryData : StoryIteration(_parse_issue(d))

(***************************************************************************)
(* SpecOrch: whole collection runs.  collect_github_data walks its scope   *)
(* list, one action for the root collector and one for the child           *)
(* collectors of the scope at hand; a Jira project is collected by one     *)
(* action, the whole of collect_project_epics_and_stories.                 *)
(***************************************************************************)
\* the sequences over S of length at most n
SeqsUpTo(S, n) == UNION {[1..k -> S] : k \in 0..n}

Range(s) == {s[i] : i \in DOMAIN s}

\* Python's binding of a call to a method's parameters (self left out):
\* npos positional arguments and the keyword arguments kwargs against the
\* parameter list params, of which those in defaults have a default.  A call
\* that does not bind raises TypeError before the body runs.
CallBinds(params, defaults, npos, kwargs) ==
    /\ npos <= Len(params)
    /\ kwargs \subseteq Range(params)
    /\ \A i \in 1..npos : params[i] \notin kwargs
    /\ \A i \in (npos + 1)..Len(params) : params[i] \in kwargs \cup defaults

\* GitHubClient.get_issues(self, owner, repo, state="all")
get_issues == [params |-> <<"owner", "repo", "state">>, defaults |-> {"state"}]

\* GitHubClient.get_projects(self, owner, repo)
get_projects == [params |-> <<"owner", "repo">>, defaults |-> {}]

\* GitHubClient.get_milestones(self, owner, repo, state="all")
get_milestones == [params |-> <<"owner", "repo", "state">>, defaults |-> {"state"}]

\* GitHubClient.get_repository(self, owner, repo)
get_repository == [params |-> <<"owner", "repo">>, defaults |-> {}]

GITHUB_COLLECT_ISSUES == TRUE

GITHUB_COLLECT_PROJECTS == TRUE

GITHUB_COLLECT_MILESTONES == TRUE

\* GITHUB_REPOS: the configured scope list, empty as shipped
GITHUB_REPOS == <<>>

\* what the remote and the store answer to collect_repository: the response
\* of get_repository or the error it raises, and the error of the statement
RootOutcomes ==
    [fetch : {Ok(r) : r \in RepositoryResponses} \cup {Raise("GithubException")},
     store : {None, "ServiceUnavailable"}]

\* an event of a run: a collector is called, the remote is asked, a statement
\* is sent to the store
Ev(scope, kind, what) == [scope |-> scope, kind |-> kind, what |-> what]

\* collect_repository: owner, repo = repo_full_name.split('/', 1);
\* get_repository(owner, repo); to_repository(); the MERGE statement
collect_repository(g, repo_full_name, out) ==
    LET call == <<Ev(repo_full_name, "repository", "call")>>
        fetch == call \o <<Ev(repo_full_name, "repository", "fetch")>>
        statement == fetch \o <<Ev(repo_full_name, "repository", "statement")>>
    IN  IF ~CallBinds(get_repository.params, get_repository.defaults, 2, {})
        THEN [graph |-> g, error |-> "TypeError", events |-> call]
        ELSE IF out.fetch.error # None
        THEN [graph |-> g, error |-> out.fetch.error, events |-> fetch]
        ELSE LET repository == to_repository(out.fetch.value)
             IN  IF repository.error # None
                 THEN [graph |-> g, error |-> repository.error, events |-> fetch]
                 ELSE IF out.store # None
                 THEN [graph |-> g, error |-> out.store, events |-> statement]
                 ELSE [graph |-> RepositoryStatement(g, repository.value), error |-> None,
                       events |-> statement]

\* the for loop of collect_issues over what get_issues yields: conversion,
\* then the statement; an exception leaves the loop.  statements counts the
\* statements sent
RECURSIVE IssueLoop(_, _, _)
IssueLoop(g, repo_full_name, batch) ==
    IF batch = <<>> THEN [graph |-> g, error |-> None, statements |-> 0]
    ELSE LET issue == to_issue(Head(batch))
         IN  IF issue.error # None
             THEN [graph |-> g, error |-> issue.error, statements |-> 0]
             ELSE LET rest == IssueLoop(IssueStatement(g, repo_full_name, issue.value),
                                        repo_full_name, Tail(batch))
                  IN  [rest EXCEPT !.statements = @ + 1]

RECURSIVE ProjectLoop(_, _, _)
ProjectLoop(g, repo_full_name, batch) ==
    IF batch = <<>> THEN [graph |-> g, error |-> None, statements |-> 0]
    ELSE LET project == to_project(Head(batch))
         IN  IF project.error # None
             THEN [graph |-> g, error |-> project.error, statements |-> 0]
             ELSE LET rest == ProjectLoop(ProjectStatement(g, repo_full_name, project.value),
                                          repo_full_name, Tail(batch))
                  IN  [rest EXCEPT !.statements = @ + 1]

RECURSIVE MilestoneLoop(_, _, _)
MilestoneLoop(g, repo_full_name, batch) ==
    IF batch = <<>> THEN [graph |-> g, error |-> None, statements |-> 0]
    ELSE LET milestone == to_milestone(Head(batch))
         IN  IF milestone.error # None
             THEN [graph |-> g, error |-> milestone.error, statements |-> 0]
             ELSE LET rest == MilestoneLoop(MilestoneStatement(g, repo_full_name, milestone.value),
                                            repo_full_name, Tail(batch))
                  IN  [rest EXCEPT !.statements = @ + 1]

\* what the remote does while a client generator is consumed: the records it
\* lists, then the GithubException (its status, <<>> for none) that ends the
\* listing, raised by self.github.get_repo ("get_repo") or by the listing
\* request of a page ("listing")
NoAnswer == [items |-> <<>>, raised |-> <<>>, at |-> "listing"]

\* the generator _get_issues of get_issues: it yields a response per listed
\* issue and lets the exception of the remote through
_get_issues(answer) == [items |-> answer.items, raised |-> answer.raised]

\* the generator _get_milestones of get_milestones
_get_milestones(answer) == [items |-> answer.items, raised |-> answer.raised]

\* the generator _get_projects of get_projects: "except GithubException as e:
\* if e.status == 404: return; raise" around the listing, not around get_repo
_get_projects(answer) ==
    IF answer.at = "listing" /\ answer.raised = <<404>>
    THEN [items |-> answer.items, raised |-> <<>>]
    ELSE [items |-> answer.items, raised |-> answer.raised]

\* a collector's "for x in self.github_client.get_x(...)": the loop over the
\* yielded records, then the exception the generator raised
Consumed(scope, kind, loop, raised) ==
    [graph |-> loop.graph,
     error |-> IF loop.error # None THEN loop.error
               ELSE IF raised # <<>> THEN "GithubException" ELSE None,
     events |-> <<Ev(scope, kind, "call"), Ev(scope, kind, "fetch")>>
                \o [i \in 1..loop.statements |-> Ev(scope, kind, "statement")]]

\* a collector whose call of the client raised before the generator existed
NotBound(g, scope, kind) ==
    [graph |-> g, error |-> "TypeError", events |-> <<Ev(scope, kind, "call")>>]

\* collect_issues: self.github_client.get_issues(repo_full_name, state="all")
collect_issues(g, repo_full_name, answer) ==
    IF ~GITHUB_COLLECT_ISSUES THEN [graph |-> g, error |-> None, events |-> <<>>]
    ELSE IF ~CallBinds(get_issues.params, get_issues.defaults, 1, {"state"})
    THEN NotBound(g, repo_full_name, "issues")
    ELSE Consumed(repo_full_name, "issues",
                  IssueLoop(g, repo_full_name, _get_issues(answer).items),
                  _get_issues(answer).raised)

\* collect_projects: self.github_client.get_projects(repo_full_name)
collect_projects(g, repo_full_name, answer) ==
    IF ~GITHUB_COLLECT_PROJECTS THEN [graph |-> g, error |-> None, events |-> <<>>]
    ELSE IF ~CallBinds(get_projects.params, get_projects.defaults, 1, {})
    THEN NotBound(g, repo_full_name, "projects")
    ELSE Consumed(repo_full_name, "projects",
                  ProjectLoop(g, repo_full_name, _get_projects(answer).items),
                  _get_projects(answer).raised)

\* collect_milestones: self.github_client.get_milestones(repo_full_name, state="all")
collect_milestones(g, repo_full_name, answer) ==
    IF ~GITHUB_COLLECT_MILESTONES THEN [graph |-> g, error |-> None, events |-> <<>>]
    ELSE IF ~CallBinds(get_milestones.params, get_milestones.defaults, 1, {"state"})
    THEN NotBound(g, repo_full_name, "milestones")
    ELSE Consumed(repo_full_name, "milestones",
                  MilestoneLoop(g, repo_full_name, _get_milestones(answer).items),
                  _get_milestones(answer).raised)

NoKinds == [issues |-> "not_collected", projects |-> "not_collected",
            milestones |-> "not_collected"]

\* collect_repository_data after the root: collect_issues, collect_projects,
\* collect_milestones in this order; an exception of one leaves the method
collect_children(g, repo_full_name, remote) ==
    LET i == collect_issues(g, repo_full_name, remote.issues)
        p == collect_projects(i.graph, repo_full_name, remote.projects)
        m == collect_milestones(p.graph, repo_full_name, remote.milestones)
    IN  IF i.error # None
        THEN [graph |-> i.graph, error |-> i.error, events |-> i.events,
              kinds |-> [NoKinds EXCEPT !.issues = "failed"]]
        ELSE IF p.error # None
        THEN [graph |-> p.graph, error |-> p.error, events |-> i.events \o p.events,
              kinds |-> [NoKinds EXCEPT !.issues = "collected", !.projects = "failed"]]
        ELSE IF m.error # None
        THEN [graph |-> m.graph, error |-> m.error,
              events |-> i.events \o p.events \o m.events,
              kinds |-> [issues |-> "collected", projects |-> "collected",
                         milestones |-> "failed"]]
        ELSE [graph |-> m.graph, error |-> None,
              events |-> i.events \o p.events \o m.events,
              kinds |-> [issues |-> "collected", projects |-> "collected",
                         milestones |-> "collected"]]

\* collect_repository_data: the root, then the children
collect_repository_data(g, repo_full_name, out, remote) ==
    LET r == collect_repository(g, repo_full_name, out)
        c == collect_children(r.graph, repo_full_name, remote)
    IN  IF r.error # None
        THEN [graph |-> r.graph, error |-> r.error, events |-> r.events, kinds |-> NoKinds]
        ELSE [c EXCEPT !.events = r.events \o @]

\* what the remote would answer to the child collectors of a scope: one open
\* issue or none; no project, with the projects endpoint answering 200, 404
\* or 500; no milestone
Remotes ==
    [issues : {[NoAnswer EXCEPT !.items = b] :
                  b \in SeqsUpTo({r \in IssueResponses : r.id = 1 /\ r.state = "open"}, 1)},
     projects : {[NoAnswer EXCEPT !.raised = e] : e \in {<<>>, <<404>>, <<500>>}},
     milestones : {NoAnswer}]

\* a listing yields each entity once
DistinctIds(b) == \A i, j \in DOMAIN b : b[i].id = b[j].id => i = j

\* the batches a collector's loop may be given
IssueBatches == {b \in SeqsUpTo(IssueResponses, MaxBatch) : DistinctIds(b)}

ProjectBatches == {b \in SeqsUpTo(ProjectResponses, MaxBatch) : DistinctIds(b)}

MilestoneBatches == {b \in SeqsUpTo(MilestoneResponses, MaxBatch) : DistinctIds(b)}

\* a search answers with issues of distinct keys
DistinctKeys(b) == \A i, j \in DOMAIN b : b[i].key = b[j].key => i = j

\* within one collection an issue is read with one summary
EpicBatches ==
    {b \in SeqsUpTo({d \in JiraEpicData : d.summary = "Checkout"}, MaxBatch) : DistinctKeys(b)}

StoryBatches ==
    {b \in SeqsUpTo({d \in JiraStoryData : d.summary = "Pay"}, MaxBatch) : DistinctKeys(b)}

\* an issue of a search answer without the field 'key'
JiraKeylessData == [summary : {"Checkout"}, parent : {None}]

\* issue_data['key'] of _parse_issue: a KeyError unless the key is there
HasKey(d) == "key" \in DOMAIN d

\* an answer that was given and parses
Parsed(answer) ==
    answer.error = None /\ \A i \in DOMAIN answer.value : HasKey(answer.value[i])

\* get_stories_by_epic(k) is called in the collection: k is among the parsed
\* epics and the story searches of the epics before it were answered and
\* parsed
Asked(up, k) ==
    /\ Parsed(up.epics)
    /\ \E i \in DOMAIN up.epics.value :
          /\ up.epics.value[i].key = k
          /\ \A j \in 1..(i - 1) : Parsed(up.stories[up.epics.value[j].key])

\* what Jira answers during one collection: to get_epics, and to
\* get_stories_by_epic for each epic; an answer holds parseable issues or one
\* issue without a key; a key that is not asked about answers nothing
JiraUpstreams ==
    LET Keyless == {<<d>> : d \in JiraKeylessData}
    IN  {up \in [epics : {Ok(b) : b \in EpicBatches \cup Keyless} \cup {Raise("HTTPError")},
                 stories : [EpicKeys -> {Ok(b) : b \in StoryBatches \cup Keyless}
                                            \cup {Raise("HTTPError")}]] :
            \A k \in EpicKeys : ~Asked(up, k) => up.stories[k] = Ok(<<>>)}

\* the call of run_query, counted within one collection, that raises; 0: none
StoreFailures == 0 .. (MaxBatch + 1)

\* [self._parse_issue(d) for d in data]
ParseAll(data) ==
    IF \A i \in DOMAIN data : HasKey(data[i])
    THEN Ok([i \in DOMAIN data |-> _parse_issue(data[i])])
    ELSE Raise("KeyError")

\* "for epic in epics: stories_data = get_stories_by_epic(epic.key); stories =
\* [parse ...]; all_stories.extend(stories)"; an exception leaves the loop
RECURSIVE FetchStories(_, _, _)
FetchStories(epics, up, all_stories) ==
    IF epics = <<>> THEN Ok(all_stories)
    ELSE LET stories_data == up.stories[Head(epics).key]
             stories == ParseAll(stories_data.value)
         IN  IF stories_data.error # None THEN Raise(stories_data.error)
             ELSE IF stories.error # None THEN Raise(stories.error)
             ELSE FetchStories(Tail(epics), up, all_stories \o stories.value)

\* "for epic in epics": the graph it leaves, the statements that ran, what
\* run_query raised and the calls of run_query made so far
RECURSIVE StoreEpics(_, _, _, _)
StoreEpics(g, epics, calls, failing) ==
    IF epics = <<>>
    THEN [graph |-> g, statements |-> <<>>, error |-> None, calls |-> calls]
    ELSE IF calls + 1 = failing
    THEN [graph |-> g, statements |-> <<>>, error |-> "Neo4jError", calls |-> calls + 1]
    ELSE LET rest == StoreEpics(EpicStatement(g, Head(epics)), Tail(epics),
                                calls + 1, failing)
         IN  [rest EXCEPT !.statements = <<"epic">> \o @]

\* "for story in stories"
RECURSIVE StoreStories(_, _, _, _)
StoreStories(g, stories, calls, failing) ==
    IF stories = <<>>
    THEN [graph |-> g, statements |-> <<>>, error |-> None, calls |-> calls]
    ELSE LET first == StoryIterationStatements(g, Head(stories))
             n == Len(first.statements)
         IN  IF calls + 1 = failing
             THEN [graph |-> g, statements |-> <<>>, error |-> "Neo4jError",
                   calls |-> calls + 1]
             ELSE IF n = 2 /\ calls + 2 = failing
             THEN [graph |-> StoryStatement(g, Head(stories)), statements |-> <<"story">>,
                   error |-> "Neo4jError", calls |-> calls + 2]
             ELSE LET rest == StoreStories(first.graph, Tail(stories), calls + n, failing)
                  IN  [rest EXCEPT !.statements = first.statements \o @]

\* the story loop before the epic loop
StoriesBeforeEpics(g, epics, stories, failing) ==
    LET s == StoreStories(g, stories, 0, failing)
        e == StoreEpics(s.graph, epics, s.calls, failing)
    IN  IF s.error # None
        THEN [graph |-> s.graph, statements |-> s.statements, error |-> s.error]
        ELSE [graph |-> e.graph, statements |-> s.statements \o e.statements,
              error |-> e.error]

\* _store_epics_and_stories: the epic loop, then the story loop; an exception
\* of run_query leaves the method
_store_epics_and_stories(g, epics, stories, failing) ==
    LET e == StoreEpics(g, epics, 0, failing)
        s == StoreStories(e.graph, stories, e.calls, failing)
    IN  IF e.error # None
        THEN [graph |-> e.graph, statements |-> e.statements, error |-> e.error]
        ELSE [graph |-> s.graph, statements |-> e.statements \o s.statements,
              error |-> s.error]

\* the except clause: {"project", "error": str(e), "success": False}
Failed(g, statements, error) ==
    [graph |-> g, statements |-> statements, keys |-> <<>>,
     result |-> [success |-> FALSE, error |-> error,
                 epics_collected |-> <<>>, stories_collected |-> <<>>]]

\* len(items) of the distinct issues only
CollectedDistinct(items) == Cardinality({items[i].key : i \in DOMAIN items})

\* "epics_collected": len(epics), "stories_collected": len(all_stories)
Collected(items) == Len(items)

\* the keys of a list of parsed issues
KeysOf(items) == {items[i].key : i \in DOMAIN items}

\* collect_project_epics_and_stories: the graph it leaves, the statements
\* that ran, the keys it parsed and the dict it returns
collect_project_epics_and_stories(g, up, failing) ==
    IF up.epics.error # None THEN Failed(g, <<>>, up.epics.error)
    ELSE LET epics == ParseAll(up.epics.value)
         IN  IF epics.error # None THEN Failed(g, <<>>, epics.error)
             ELSE LET all_stories == FetchStories(epics.value, up, <<>>)
                  IN  IF all_stories.error # None THEN Failed(g, <<>>, all_stories.error)
                      ELSE LET stored == _store_epics_and_stories(g, epics.value,
                                                                  all_stories.value, failing)
                           IN  IF stored.error # None
                               THEN Failed(stored.graph, stored.statements, stored.error)
                               ELSE [graph |-> stored.graph,
                                     statements |-> stored.statements,
                                     keys |-> <<[epics |-> KeysOf(epics.value),
                                                 stories |-> KeysOf(all_stories.value)]>>,
                                     result |->
                                         [success |-> TRUE, error |-> None,
                                          epics_collected |-> <<Collected(epics.value)>>,
                                          stories_collected |->
                                              <<Collected(all_stories.value)>>]]

\* the scope lists collect_github_data is called with: each scope once
ScopeLists ==
    {l \in SeqsUpTo(RepoNames, MaxScopes) : \A i, j \in DOMAIN l : l[i] = l[j] => i = j}

IdleOrch ==
    [pc |-> "idle", repos |-> <<>>, idx |-> 0, status |-> <<>>, root |-> <<>>,
     kinds |-> <<>>, errors |-> <<>>, result |-> "pending", trace |-> <<>>,
     remote |-> <<>>]

InitOrch == orch = IdleOrch

\* the position of the for loop of collect_github_data after the scope at
\* idx of n: the except clause is inside the loop, so the next scope follows
\* whether collect_repository_data raised or not; 0 is the end of the loop
AfterScopeAbort(idx, n, error) ==
    IF error # None THEN 0 ELSE IF idx < n THEN idx + 1 ELSE 0

AfterScope(idx, n, error) ==
    IF idx < n THEN idx + 1 ELSE 0

\* collect_repository_data(repo) of the scope at hand has returned or raised:
\* "Completed collection" or "Failed to collect data" is logged and the loop
\* goes on; after the last scope the finally clause runs and None is returned
ScopeEnds(o, kinds, error) ==
    LET next == AfterScope(o.idx, Len(o.repos), error)
        done == [o EXCEPT !.status[o.idx] = IF error = None THEN "DONE" ELSE "FAILED",
                          !.kinds[o.idx] = kinds,
                          !.errors[o.idx] = error]
    IN  IF next = 0
        THEN [done EXCEPT !.pc = "returned", !.result = None]
        ELSE [done EXCEPT !.pc = "root", !.idx = next, !.status[next] = "COLLECTING_ROOT"]

\* collect_github_data(repositories) is called: "repos = repositories or
\* GITHUB_REPOS; if not repos: return"; else the loop enters its first scope
OrchCall(repositories) ==
    LET repos == IF repositories # <<>> THEN repositories ELSE GITHUB_REPOS
    IN  /\ orch.pc \in {"idle", "returned"}
        /\ orch' = IF repos = <<>>
                   THEN [IdleOrch EXCEPT !.pc = "returned", !.result = None]
                   ELSE [pc |-> "root", repos |-> repos, idx |-> 1,
                         status |-> [i \in DOMAIN repos |->
                                        IF i = 1 THEN "COLLECTING_ROOT" ELSE "PENDING"],
                         root |-> [i \in DOMAIN repos |-> "pending"],
                         kinds |-> [i \in DOMAIN repos |-> NoKinds],
                         errors |-> [i \in DOMAIN repos |-> None],
                         result |-> "pending", trace |-> <<>>, remote |-> <<>>]
        /\ last' = NoStep
        /\ UNCHANGED <<graph, clientVars, archVars>>

\* collect_repository_data(repo) up to the end of collect_repository: on an
\* exception the method is left and the scope ends
OrchRoot(out) ==
    LET scope == orch.repos[orch.idx]
        r == collect_repository(graph, scope, out)
    IN  /\ orch.pc = "root"
        /\ NodeCount(r.graph) <= MaxNodes
        /\ graph' = r.graph
        /\ orch' = IF r.error = None
                   THEN [orch EXCEPT !.pc = "children",
                                     !.root[orch.idx] = "collected",
                                     !.status[orch.idx] = "COLLECTING_CHILDREN",
                                     !.trace = @ \o r.events]
                   ELSE ScopeEnds([orch EXCEPT !.root[orch.idx] = "failed",
                                               !.trace = @ \o r.events],
                                  NoKinds, r.error)
        /\ UNCHANGED <<last, clientVars, archVars>>

\* the rest of collect_repository_data(repo): the three child collectors
OrchChildren(remote) ==
    LET scope == orch.repos[orch.idx]
        r == collect_children(graph, scope, remote)
    IN  /\ orch.pc = "children"
        /\ NodeCount(r.graph) <= MaxNodes
        /\ graph' = r.graph
        /\ orch' = ScopeEnds([orch EXCEPT !.trace = @ \o r.events, !.remote = <<remote>>],
                             r.kinds, r.error)
        /\ UNCHANGED <<last, clientVars, archVars>>

\* JiraCollector.collect_project_epics_and_stories(project_key), called while
\* no GitHub collection is running; run_query is made to raise in the
\* collections of one epic, where it is called once for each kind of statement
JiraCollect(up, failing) ==
    /\ orch.pc \in {"idle", "returned"}
    /\ failing # 0 => Parsed(up.epics) /\ Len(up.epics.value) = 1
    /\ \E r \in {collect_project_epics_and_stories(graph, up, failing)} :
        /\ NodeCount(r.graph) <= MaxNodes
        /\ graph' = r.graph
        /\ last' = [op |-> "jira_collection", upserted |-> r.result.success,
                    existed |-> r.graph = graph,
                    record |-> r.result, old |-> <<>>,
                    error |-> None, id |-> r.keys, parents |-> {}, new_edge |-> FALSE,
                    statements |-> r.statements]
        /\ orch' = IdleOrch
        /\ UNCHANGED <<clientVars, archVars>>

NextOrch ==
    \/ \E repositories \in ScopeLists : OrchCall(repositories)
    \/ \E out \in RootOutcomes : OrchRoot(out)
    \/ \E remote \in Remotes : OrchChildren(remote)
    \/ \E up \in JiraUpstreams, failing \in StoreFailures : JiraCollect(up, failing)

(***************************************************************************)
(* SpecSchema: the ensure-schema functions, create_github_schema           *)
(* (graph/github_schema.py) and create_schema (neo4j_integration/          *)
(* schema.py).  One action is one call.                                    *)
(***************************************************************************)
Constraint(label, property) == [kind |-> "constraint", label |-> label, on |-> property]

Index(label, property) == [kind |-> "index", label |-> label, on |-> property]

\* the lists constraints and indexes of create_github_schema, in the order
\* the two loops run them
GithubDeclarations ==
    <<Constraint(GITHUB_LABEL_REPOSITORY, "id"), Constraint(GITHUB_LABEL_ISSUE, "id"),
      Constraint(GITHUB_LABEL_PROJECT, "id"), Constraint(GITHUB_LABEL_MILESTONE, "id"),
      Index(GITHUB_LABEL_REPOSITORY, "full_name"), Index(GITHUB_LABEL_ISSUE, "number"),
      Index(GITHUB_LABEL_ISSUE, "state"), Index(GITHUB_LABEL_PROJECT, "number"),
      Index(GITHUB_LABEL_MILESTONE, "number"), Index(GITHUB_LABEL_MILESTONE, "state")>>

\* the lists constraints and indexes of create_schema
C4Declarations ==
    <<Constraint("Context", "name"), Constraint("Container", "name"),
      Constraint("Component", "name"), Constraint("Code", "name"),
      Index("Context", "description"), Index("Container", "description"),
      Index("Component", "description"), Index("Code", "description")>>

\* the declarations the store refuses during one call (insufficient
\* privileges, store unavailable): none, one of them, or all
Refusals(declarations) ==
    {{}} \cup {{declarations[i]} : i \in DOMAIN declarations} \cup {Range(declarations)}

\* "for constraint in constraints: try: session.run(constraint) except
\* Exception as e: print(...)" and the same for indexes: a refused
\* declaration is reported and the loop goes on.  CREATE ... IF NOT EXISTS
\* leaves an existing declaration as it is.
RECURSIVE create_github_schema(_, _, _)
create_github_schema(declared, todo, refused) ==
    IF todo = <<>> THEN [declared |-> declared, attempted |-> <<>>, raised |-> None]
    ELSE LET rest == create_github_schema(
                         IF Head(todo) \in refused THEN declared
                         ELSE declared \cup {Head(todo)},
                         Tail(todo), refused)
         IN  [rest EXCEPT !.attempted = <<Head(todo)>> \o @]

\* "for constraint in constraints: client.run_query(constraint)" and the same
\* for indexes: no try, so the exception of a refused declaration leaves
\* create_schema
RECURSIVE create_schema(_, _, _)
create_schema(declared, todo, refused) ==
    IF todo = <<>> THEN [declared |-> declared, attempted |-> <<>>, raised |-> None]
    ELSE IF Head(todo) \in refused
    THEN [declared |-> declared, attempted |-> <<Head(todo)>>, raised |-> "Neo4jError"]
    ELSE LET rest == create_schema(declared \cup {Head(todo)}, Tail(todo), refused)
         IN  [rest EXCEPT !.attempted = <<Head(todo)>> \o @]

InitSchema ==
    schema = [declared |-> {}, op |-> "none", attempted |-> <<>>, refused |-> {},
              raised |-> None]

\* create_github_schema(driver) is called while the store refuses `refused`
CreateGithubSchema(refused) ==
    LET r == create_github_schema(schema.declared, GithubDeclarations, refused)
    IN  /\ schema' = [declared |-> r.declared, op |-> "create_github_schema",
                      attempted |-> r.attempted, refused |-> refused, raised |-> r.raised]
        /\ UNCHANGED <<storeVars, clientVars, orch, c4, conv>>

\* create_schema(client) is called while the store refuses `refused`
CreateSchema(refused) ==
    LET r == create_schema(schema.declared, C4Declarations, refused)
    IN  /\ schema' = [declared |-> r.declared, op |-> "create_schema",
                      attempted |-> r.attempted, refused |-> refused, raised |-> r.raised]
        /\ UNCHANGED <<storeVars, clientVars, orch, c4, conv>>

NextSchema ==
    \/ \E refused \in Refusals(GithubDeclarations) : CreateGithubSchema(refused)
    \/ \E refused \in Refusals(C4Declarations) : CreateSchema(refused)

(***************************************************************************)
(* SpecArch: the architecture nodes and create_c4_relationships            *)
(* (neo4j_integration/schema.py).  The nodes are written by the users of   *)
(* the store; one action is one node written or one call.                  *)
(***************************************************************************)
C4Names == {"shop", "pay"}

\* Context, Container, Component, Code of neo4j_integration/models.py: the
\* name and the name of the parent (context_name, container_name,
\* component_name); a Context has none
C4Nodes ==
    [label : {"Context"}, name : C4Names, parent : {None}]
    \cup [label : {"Container", "Component", "Code"}, name : C4Names, parent : C4Names]

\* the three statements of relationship_queries: the label of the child and
\* of the parent they match
relationship_queries ==
    <<[child |-> "Container", parent |-> "Context"],
      [child |-> "Component", parent |-> "Container"],
      [child |-> "Code", parent |-> "Component"]>>

\* the rows of "MATCH (c:Child), (p:Parent) WHERE c.parent_name = p.name":
\* pairs of node identities
Matched(nodes, query) ==
    {row \in (DOMAIN nodes) \X (DOMAIN nodes) :
        /\ nodes[row[1]].label = query.child
        /\ nodes[row[2]].label = query.parent
        /\ nodes[row[1]].parent = nodes[row[2]].name}

\* the statement without "AND NOT (c)-[:BELONGS_TO]->(p)"
RunQueryAlways(nodes, edges, query) ==
    edges (+) [row \in Matched(nodes, query) |-> 1]

\* "... AND NOT (c)-[:BELONGS_TO]->(p) CREATE (c)-[:BELONGS_TO]->(p)": an edge
\* is created for every matched row that has none
RunQuery(nodes, edges, query) ==
    edges (+) [row \in {r \in Matched(nodes, query) : ~BagIn(r, edges)} |-> 1]

\* "for query in relationship_queries: client.run_query(query)" with
\* run_query raising at the statement numbered failing (0: at none)
RECURSIVE create_c4_relationships(_, _, _, _)
create_c4_relationships(nodes, edges, i, failing) ==
    IF i > Len(relationship_queries) THEN [edges |-> edges, raised |-> None]
    ELSE IF i = failing THEN [edges |-> edges, raised |-> "Neo4jError"]
    ELSE create_c4_relationships(nodes, RunQuery(nodes, edges, relationship_queries[i]),
                                 i + 1, failing)

InitC4 == c4 = [nodes |-> <<>>, edges |-> EmptyBag, op |-> "none", raised |-> None]

\* a user of the store writes an architecture node
WriteNode(node) ==
    /\ Len(c4.nodes) < MaxNodes
    /\ c4' = [c4 EXCEPT !.nodes = Append(@, node), !.op = "write_node", !.raised = None]
    /\ UNCHANGED <<storeVars, clientVars, orch, schema, conv>>

\* create_c4_relationships(client) is called
CreateC4Relationships(failing) ==
    LET r == create_c4_relationships(c4.nodes, c4.edges, 1, failing)
    IN  /\ c4' = [c4 EXCEPT !.edges = r.edges, !.op = "create_c4_relationships",
                            !.raised = r.raised]
        /\ UNCHANGED <<storeVars, clientVars, orch, schema, conv>>

NextArch ==
    \/ \E node \in C4Nodes : WriteNode(node)
    \/ \E failing \in 0..Len(relationship_queries) : CreateC4Relationships(failing)

(***************************************************************************)
(* SpecConvert: GitHubIssueResponse.to_issue (models.py) on responses with *)
(* label and assignee sub-objects.  One action is one conversion.          *)
(***************************************************************************)
\* label sub-objects as the remote sends them; one has no name
LabelObjects == {[name |-> "bug"], [name |-> "ui"], [color |-> "red"]}

AssigneeObjects == {[login |-> "alice"], [login |-> "bob"]}

ConversionResponses ==
    {[id |-> i, number |-> i + 6, title |-> "Crash on save", state |-> s[1],
      closed_at |-> s[2], labels |-> l, assignees |-> a] :
        i \in IssueIds, s \in IssueStates,
        l \in SeqsUpTo(LabelObjects, MaxBatch), a \in SeqsUpTo(AssigneeObjects, MaxBatch)}

InitConvert == conv = [op |-> "none", response |-> <<>>, self |-> <<>>, result |-> Ok(<<>>)]

\* response.to_issue(): a new GitHubIssue is built from the fields of self,
\* which is assigned nowhere.  to_issue reads nothing but self, so every
\* conversion is taken from the state in which none was made
ToIssue(response) ==
    /\ conv.op = "none"
    /\ conv' = [op |-> "to_issue", response |-> response, self |-> response,
                result |-> to_issue(response)]
    /\ UNCHANGED <<storeVars, clientVars, orch, schema, c4>>

NextConvert == \E response \in ConversionResponses : ToIssue(response)

Init == InitStore /\ InitClient /\ InitOrch /\ InitSchema /\ InitC4 /\ InitConvert

Spec == Init /\ [][Next]_vars

SpecRetry == Init /\ [][NextRetry]_vars

\* the wrapper is synchronous: a pass of its loop that can be made is made
SpecRetryLive ==
    /\ Init
    /\ [][NextRetry]_vars
    /\ WF_vars(\E out \in FuncOutcomes, limits \in RateLimitings : Attempt(out, limits))

SpecOrch == Init /\ [][NextOrch]_vars

SpecSchema == Init /\ [][NextSchema]_vars

SpecConvert == Init /\ [][NextConvert]_vars

SpecArch == Init /\ [][NextArch]_vars

(***************************************************************************)
(* Properties of the store (Spec).                                         *)
(***************************************************************************)
\* the nodes of bag b whose identity is the one the last step upserted
LastById(b) == {n \in DOMAIN b : n.id = last.record.id}

LastByKey(b) == {n \in DOMAIN b : n.key = last.record.key}

\* C2 (convergence): after a step that upserted an entity, the node with its
\* identity key exists and every property the statement sets equals the value
\* of the record just collected, whatever the node held before; an optional
\* timestamp the record lacks is null on the node.
C2_Convergence ==
    last.upserted =>
        CASE last.op = "repository" ->
                /\ LastById(graph.repo) # {}
                /\ \A n \in LastById(graph.repo) : n.full_name = last.record.full_name
          [] last.op = "issue" ->
                /\ LastById(graph.issue) # {}
                /\ \A n \in LastById(graph.issue) :
                      /\ n.number = last.record.number
                      /\ n.title = last.record.title
                      /\ n.state = last.record.state
                      /\ n.closed_at = last.record.closed_at
          [] last.op = "project" ->
                /\ LastById(graph.project) # {}
                /\ \A n \in LastById(graph.project) :
                      n.name = last.record.name /\ n.state = last.record.state
          [] last.op = "milestone" ->
                /\ LastById(graph.milestone) # {}
                /\ \A n \in LastById(graph.milestone) :
                      /\ n.title = last.record.title
                      /\ n.state = last.record.state
                      /\ n.due_on = last.record.due_on
          [] last.op = "epic" ->
                /\ LastByKey(graph.epic) # {}
                /\ \A n \in LastByKey(graph.epic) : n.summary = last.record.summary
          [] last.op = "story" ->
                /\ LastByKey(graph.story) # {}
                /\ \A n \in LastByKey(graph.story) : n.summary = last.record.summary

\* an issue that was closed is collected again as open: state changed and
\* closed_at became absent
C2_Witness ==
    /\ last.op = "issue"
    /\ last.upserted
    /\ last.existed
    /\ last.old.state = "closed"
    /\ last.old.closed_at # None
    /\ last.record.state = "open"
    /\ last.record.closed_at = None

\* every element of bag b is there once
Once(b) == \A e \in DOMAIN b : b[e] = 1

\* C3 (uniqueness): the graph holds at most one node per label and identity
\* key and at most one edge per relationship type and ordered pair of nodes.
C3_Uniqueness ==
    /\ \A f \in {"repo", "issue", "project", "milestone"} :
          /\ Once(graph[f])
          /\ \A m, n \in DOMAIN graph[f] : m.id = n.id => m = n
    /\ \A f \in {"epic", "story"} :
          /\ Once(graph[f])
          /\ \A m, n \in DOMAIN graph[f] : m.key = n.key => m = n
    /\ Once(graph.rel)
    /\ Once(graph.jrel)

\* an entity that was already in the graph with its edge is collected again
C3_Witness ==
    /\ last.op = "issue"
    /\ last.upserted
    /\ last.existed
    /\ \E e \in DOMAIN graph.rel : e.label = GITHUB_LABEL_ISSUE /\ e.from = last.record.id

(***************************************************************************)
(* Properties of the retry wrapper (SpecRetry).                            *)
(***************************************************************************)
ServerErrorOutcome(o) == o.kind = "GithubException" /\ o.status >= 500

\* a client error that is no rate-limit error: 4xx, a 403 only without the text
ClientErrorOutcome(o) ==
    /\ o.kind = "GithubException"
    /\ o.status >= 400
    /\ o.status < 500
    /\ ~(o.status = 403 /\ o.rate_limit_text)

\* rate-limit 403, server error, or another exception
RetryableOutcome(o) ==
    \/ o.kind = "Exception"
    \/ ServerErrorOutcome(o)
    \/ (o.kind = "GithubException" /\ o.status = 403 /\ o.rate_limit_text)

\* C4 (retry success path): a server error on the first attempt, and on the
\* first two, leaves the wrapper in its loop with one call and one backoff
\* sleep per failed attempt; when the third attempt then succeeds the wrapper
\* returns after exactly three calls of the operation and exactly two backoff
\* sleeps.
C4_RetrySuccessPath ==
    /\ \A n \in 1..2 :
          (/\ Len(retry.outcomes) = n
           /\ \A i \in 1..n : ServerErrorOutcome(retry.outcomes[i]))
          => /\ retry.pc = "running"
             /\ retry.calls = n
             /\ Len(retry.sleeps) = n
    /\ (/\ Len(retry.outcomes) = 3
        /\ ServerErrorOutcome(retry.outcomes[1])
        /\ ServerErrorOutcome(retry.outcomes[2])
        /\ retry.outcomes[3].kind = "ok")
       => /\ retry.pc = "returned"
          /\ retry.calls = 3
          /\ Len(retry.sleeps) = 2

C4_Witness ==
    /\ Len(retry.outcomes) = 3
    /\ retry.outcomes[1].status = 500
    /\ retry.outcomes[2].status = 500
    /\ retry.outcomes[3].kind = "ok"
    /\ retry.pc = "returned"

\* C5 (non-retryable client errors): a client error that is not a rate-limit
\* error leaves the wrapper on the attempt that raised it; raised by the first
\* attempt, the operation was called exactly once and no backoff sleep was
\* made, and the error that leaves the wrapper is that error.
C5_ClientErrorNotRetried ==
    \A i \in 1..Len(retry.outcomes) :
        ClientErrorOutcome(retry.outcomes[i])
        => /\ i = Len(retry.outcomes)
           /\ retry.pc = "raised"
           /\ retry.error.cause = <<retry.outcomes[i]>>
           /\ retry.calls = i
           /\ Len(retry.sleeps) = i - 1

C5_Witness ==
    /\ Len(retry.outcomes) = 1
    /\ retry.outcomes[1].status = 403
    /\ ~retry.outcomes[1].rate_limit_text
    /\ retry.pc = "raised"
    /\ retry.calls = 1
    /\ retry.sleeps = <<>>

\* C6 (retry exhaustion), as claimed: when all GITHUB_MAX_RETRIES attempts
\* failed with retryable errors, the wrapper has raised its exhaustion error
\* (line 92) and that error carries the last underlying error.
C6_ExhaustionCarriesLastError ==
    (/\ retry.pc = "raised"
     /\ Len(retry.outcomes) = GITHUB_MAX_RETRIES
     /\ \A i \in 1..Len(retry.outcomes) : RetryableOutcome(retry.outcomes[i]))
    => /\ retry.error.type = "RuntimeError"
       /\ retry.error.cause = <<retry.outcomes[GITHUB_MAX_RETRIES]>>

\* C7 (rate-limit gating): for the attempt made last, with the cache as
\* _handle_rate_limit read it: when remaining was known and <= 0 and the reset
\* time was T, the request was issued at a clock reading >= T; when remaining
\* was unknown or > 0, no gating sleep was made.
C7_RateLimitGating ==
    \A i \in 1..Len(retry.gate) :
        LET g == retry.gate[i]
        IN  /\ (g.remaining # <<>> /\ g.remaining[1] <= 0 /\ g.reset # <<>>)
                => g.issued_at >= g.reset[1]
            /\ (g.remaining = <<>> \/ g.remaining[1] > 0) => g.slept = 0

\* a retry was gated: the cache said 0 remaining until T, the wrapper slept,
\* and the request went out at T or later
C7_Witness ==
    /\ Len(retry.gate) = 1
    /\ retry.gate[1].remaining = <<0>>
    /\ retry.gate[1].slept > 0
    /\ retry.gate[1].issued_at >= retry.gate[1].reset[1]
    /\ retry.calls >= 1

(***************************************************************************)
(* Properties of whole collection runs (SpecOrch).                         *)
(***************************************************************************)
\* C1 (idempotence): from any graph the program can have built, and for any
\* fixed upstream data, collecting a scope twice leaves exactly the nodes and
\* edges that collecting it once leaves.  For a GitHub scope this is
\* collect_repository_data, for a Jira project
\* collect_project_epics_and_stories, and it also holds of each child
\* collector's loop over a fixed batch.
C1_Idempotence ==
    orch.pc = "idle" =>
        /\ \A scope \in RepoNames, out \in RootOutcomes, remote \in Remotes :
              LET once == collect_repository_data(graph, scope, out, remote).graph
              IN  collect_repository_data(once, scope, out, remote).graph = once
        /\ \A up \in JiraUpstreams :
              LET once == collect_project_epics_and_stories(graph, up, 0).graph
              IN  collect_project_epics_and_stories(once, up, 0).graph = once
        /\ \A scope \in RepoNames :
              /\ \A batch \in IssueBatches :
                    LET once == IssueLoop(graph, scope, batch).graph
                    IN  IssueLoop(once, scope, batch).graph = once
              /\ \A batch \in ProjectBatches :
                    LET once == ProjectLoop(graph, scope, batch).graph
                    IN  ProjectLoop(once, scope, batch).graph = once
              /\ \A batch \in MilestoneBatches :
                    LET once == MilestoneLoop(graph, scope, batch).graph
                    IN  MilestoneLoop(once, scope, batch).graph = once

\* a Jira collection over an epic and its story succeeded and left the graph,
\* which also holds a collected repository, exactly as it found it
C1_Witness ==
    /\ last.op = "jira_collection"
    /\ last.upserted
    /\ last.existed
    /\ last.record.epics_collected = <<1>>
    /\ last.record.stories_collected = <<1>>
    /\ DOMAIN graph.jrel # {}
    /\ DOMAIN graph.repo # {}

Terminal == {"DONE", "FAILED"}

\* C8 (child-kind failure isolation), as claimed: a scope in which the
\* collection of a child kind failed has the other child kinds collected, and
\* ends DONE.
C8_ChildFailureIsolated ==
    \A i \in DOMAIN orch.status :
        (/\ orch.status[i] \in Terminal
         /\ \E k \in DOMAIN orch.kinds[i] : orch.kinds[i][k] = "failed")
        => /\ orch.status[i] = "DONE"
           /\ \A k \in DOMAIN orch.kinds[i] : orch.kinds[i][k] # "not_collected"

\* the scopes of the running call: a failed root means no child kind was
\* collected and the scope is FAILED; scopes are entered in list order; the
\* call returns only when every scope was attempted
C9_Scopes ==
    \A i \in DOMAIN orch.status :
        /\ orch.root[i] = "failed"
            => /\ orch.status[i] = "FAILED"
               /\ orch.kinds[i] = NoKinds
        /\ orch.status[i] # "PENDING"
            => \A k \in 1..(i - 1) : orch.status[k] \in Terminal
        /\ orch.pc = "returned" => orch.status[i] \in Terminal

\* within a call, a scope that is DONE or FAILED keeps its status
C9_TerminalStep ==
    \A i \in DOMAIN orch.status :
        (orch.pc # "returned" /\ orch.status[i] \in Terminal)
        => (i \in DOMAIN orch'.status /\ orch'.status[i] = orch.status[i])

\* C9 (root failure is fatal for its scope only): when the root collection of
\* a scope fails, no child kind of it is collected and the scope ends FAILED;
\* every other scope of the run is still attempted, in order; DONE and FAILED
\* are terminal.
C9_RootFailureFatalForScopeOnly == []C9_Scopes /\ [][C9_TerminalStep]_vars

\* a two-scope call has returned: the first scope's root failed, the second
\* scope's root was collected after it
C9_Witness ==
    /\ orch.pc = "returned"
    /\ Len(orch.repos) = 2
    /\ orch.root[1] = "failed"
    /\ orch.status[1] = "FAILED"
    /\ orch.root[2] = "collected"
    /\ orch.status[2] \in Terminal

\* C10 (structured result), as claimed: a call of the orchestrator that has
\* returned has returned a summary, not None.
C10_StructuredResult ==
    orch.pc = "returned" => orch.result # None

(***************************************************************************)
(* Properties of a child step and its parent (Spec).                       *)
(***************************************************************************)
ChildOps == {"issue", "project", "milestone"}

\* the node bag of the label a step works on
BagOf(op) ==
    CASE op = "issue" -> graph.issue
      [] op = "project" -> graph.project
      [] op = "milestone" -> graph.milestone
      [] op = "epic" -> graph.epic
      [] op = "story" -> graph.story
      [] OTHER -> graph.repo

\* C11 (node upsert does not depend on the parent), as claimed: after a step
\* that processed a converted issue, project or milestone while no repository
\* node matched the scope, or a story whose parent epic is not in the graph,
\* the entity's own node is in the graph under its identity key.
C11_NodeUpsertedWithoutParent ==
    /\ (last.op \in ChildOps /\ last.error = None /\ last.parents = {})
        => \E n \in DOMAIN BagOf(last.op) : <<n.id>> = last.id
    /\ (last.op = "story" /\ last.record.parent_key # None /\ last.parents = {})
        => \E n \in DOMAIN graph.story : <<n.key>> = last.id

\* the label and the relationship type of a child collector's statement
LabelOf(op) ==
    CASE op = "issue" -> GITHUB_LABEL_ISSUE
      [] op = "project" -> GITHUB_LABEL_PROJECT
      [] OTHER -> GITHUB_LABEL_MILESTONE

TypeOf(op) == IF op = "project" THEN REL_HOSTED_IN ELSE REL_BELONGS_TO

ScopeIndex(scope) == CHOOSE i \in DOMAIN orch.repos : orch.repos[i] = scope

\* C13: root before child.  In the events of a run, every call, fetch or
\* statement of a child collector of a scope comes after the Repository
\* statement of that scope; the events follow the scope list, so all events of
\* one scope precede the first fetch of the next; in the Jira store step every
\* Epic statement precedes every Story edge statement.
C13_RootBeforeChild ==
    LET t == orch.trace
        st == last.statements
    IN  /\ \A j \in DOMAIN t :
              t[j].kind # "repository"
                  => \E i \in 1..(j - 1) : t[i] = Ev(t[j].scope, "repository", "statement")
        /\ \A j \in DOMAIN t : \E i \in DOMAIN orch.repos : orch.repos[i] = t[j].scope
        /\ \A i, j \in DOMAIN t : i < j => ScopeIndex(t[i].scope) <= ScopeIndex(t[j].scope)
        /\ last.op = "jira_collection"
              => \A i, j \in DOMAIN st : st[i] = "edge" /\ st[j] = "epic" => j < i

\* a run over two scopes has returned; in each the root was stored and the
\* first child collector was called
C13_Witness ==
    /\ orch.pc = "returned"
    /\ Len(orch.repos) = 2
    /\ \A i \in 1..2 :
          /\ orch.root[i] = "collected"
          /\ \E j, k \in DOMAIN orch.trace :
                /\ j < k
                /\ orch.trace[j] = Ev(orch.repos[i], "repository", "statement")
                /\ orch.trace[k] = Ev(orch.repos[i], "issues", "call")

(***************************************************************************)
(* Scenarios (SpecOrch, Spec).                                             *)
(***************************************************************************)
\* a run over one scope has returned with its root stored, and the remote
\* listed one open issue for it without an error
OneOpenIssueCollected ==
    /\ orch.pc = "returned"
    /\ Len(orch.repos) = 1
    /\ orch.root[1] = "collected"
    /\ orch.remote # <<>>
    /\ orch.remote[1].issues.raised = <<>>
    /\ Len(orch.remote[1].issues.items) = 1
    /\ orch.remote[1].issues.items[1].state = "open"

\* C14: end-to-end GitHub scenario.  After collecting a scope whose remote
\* has the repository and one open issue, the graph holds exactly one Issue
\* node with the issue's id, carrying its number and state "open", and
\* exactly one BELONGS_TO edge from it to the Repository node of the scope.
C14_OneIssueScenario ==
    OneOpenIssueCollected
        => LET issue == orch.remote[1].issues.items[1]
               nodes == {n \in DOMAIN graph.issue : n.id = issue.id}
               edges == {e \in DOMAIN graph.rel :
                            /\ e.label = GITHUB_LABEL_ISSUE /\ e.from = issue.id
                            /\ e.type = REL_BELONGS_TO}
           IN  /\ \E r \in DOMAIN graph.repo : r.full_name = orch.repos[1]
               /\ \E n \in nodes :
                     /\ nodes = {n} /\ graph.issue[n] = 1
                     /\ n.number = issue.number /\ n.state = "open"
               /\ \E e \in edges :
                     /\ edges = {e} /\ graph.rel[e] = 1
                     /\ \E r \in DOMAIN graph.repo :
                           r.id = e.to /\ r.full_name = orch.repos[1]

\* the BELONGS_TO edges going out of the Story node with key k in graph g
StoryEdges(g, k) == {e \in DOMAIN g.jrel : e.type = REL_BELONGS_TO /\ e.story = k}

C16_SkipAndContinue ==
    \A scope \in RepoNames, batch \in IssueBatches :
        MatchRepository(graph, scope) # {}
            => LET r == IssueLoop(graph, scope, batch)
               IN  \A i \in DOMAIN batch :
                       to_issue(batch[i]).error = None
                           => \E n \in DOMAIN r.graph.issue : n.id = batch[i].id

(***************************************************************************)
(* The lazy sequences of the client (SpecRetry).                           *)
(***************************************************************************)
\* C17: retry covers lazy consumption.  When the consumption of the issues,
\* projects or milestones sequence ended with a rate-limit or server error
\* reaching the consumer, the fetch had been run again before that, with a
\* backoff sleep after each failed run.
C17_LazyConsumptionRetried ==
    (/\ retry.func = "lazy"
     /\ retry.consumed = "raised"
     /\ retry.consumer.type = "GithubException"
     /\ \/ IsRateLimitError(retry.consumer.cause[1])
        \/ IsServerError(retry.consumer.cause[1]))
        => /\ retry.fetches > 1
           /\ Len(retry.sleeps) >= retry.fetches - 1

\* a run over one scope has returned with its root stored, and the projects
\* endpoint answered the listing with 404 while the issues listing was fine
Projects404Collected ==
    /\ orch.pc = "returned"
    /\ Len(orch.repos) = 1
    /\ orch.root[1] = "collected"
    /\ orch.remote # <<>>
    /\ orch.remote[1].issues.raised = <<>>
    /\ orch.remote[1].projects.at = "listing"
    /\ orch.remote[1].projects.raised = <<404>>

\* C18: projects 404 is empty, not an error.  When the projects endpoint
\* answers 404, get_projects yields nothing and raises nothing, collect_projects
\* ends without an error having sent no statement, and the scope goes on to
\* its milestones.
C18_Projects404IsEmpty ==
    Projects404Collected
        => /\ _get_projects(orch.remote[1].projects) = [items |-> <<>>, raised |-> <<>>]
           /\ collect_projects(graph, orch.repos[1], orch.remote[1].projects).error = None
           /\ orch.kinds[1].projects = "collected"
           /\ orch.kinds[1].milestones # "not_collected"

(***************************************************************************)
(* The rate-limit cache (SpecRetry).                                       *)
(***************************************************************************)
\* C19: rate-limit cache update.  After a successful attempt the cached
\* remaining counter and reset time equal the remaining counter and the reset
\* time of the response metadata when it is available; when it is not, both
\* cached values are the ones the attempt started with.
C19_CacheUpdate ==
    retry.pc = "returned"
        => IF retry.metadata # <<>>
           THEN /\ _rate_limit_remaining = <<retry.metadata[1].remaining>>
                /\ _rate_limit_reset = <<retry.metadata[1].resettime>>
           ELSE /\ _rate_limit_remaining = retry.gate[1].remaining
                /\ _rate_limit_reset = retry.gate[1].reset

(***************************************************************************)
(* Validation of entities (Spec).                                          *)
(***************************************************************************)
\* construction ended as the state demands: no record and ValidationError for
\* a state other than "open" and "closed", else a record with that state
AsStateDemands(result, state) ==
    IF state \in {"open", "closed"}
    THEN result.error = None /\ result.value.state = state
    ELSE result.error = "ValidationError" /\ result.value = <<>>

\* C20: state enumeration.  Constructing an Issue, Project or Milestone record
\* with a state other than "open" and "closed" fails with ValidationError and
\* yields no record, and succeeds with "open" or "closed"; the same holds for
\* to_issue, to_project and to_milestone on a response whose timestamps parse;
\* a collector step whose conversion raised ValidationError stored nothing.
C20_StateEnumeration ==
    /\ \A state \in RemoteStates :
          /\ AsStateDemands(GitHubIssue([id |-> 1, number |-> 7, title |-> "Crash on save",
                                         state |-> state, closed_at |-> None,
                                         labels |-> <<>>, assignees |-> <<>>]), state)
          /\ AsStateDemands(GitHubProject([id |-> 1, name |-> "Roadmap", state |-> state]),
                            state)
          /\ AsStateDemands(GitHubMilestone([id |-> 1, title |-> "v1", state |-> state,
                                             due_on |-> None]), state)
    /\ \A r \in IssueResponses :
          OptFromIso(r.closed_at) # "ValueError" => AsStateDemands(to_issue(r), r.state)
    /\ \A r \in ProjectResponses : AsStateDemands(to_project(r), r.state)
    /\ \A r \in MilestoneResponses :
          OptFromIso(r.due_on) # "ValueError" => AsStateDemands(to_milestone(r), r.state)
    /\ (last.op \in {"issue", "project", "milestone"} /\ last.error = "ValidationError")
          => /\ ~last.upserted
             /\ last.record = <<>>
             /\ last.statements = <<>>
             /\ ~last.new_edge

\* the collector met a milestone with state "merged": conversion raised
\* ValidationError and nothing was stored
C20_Witness ==
    /\ last.op = "milestone"
    /\ last.error = "ValidationError"
    /\ last.record = <<>>

(***************************************************************************)
(* Ensure-schema (SpecSchema).                                             *)
(***************************************************************************)
\* the declarations an ensure-schema function is to make
DeclarationsOf(op) ==
    IF op = "create_github_schema" THEN GithubDeclarations ELSE C4Declarations

\* C21: independent schema declarations.  A call of an ensure-schema function
\* attempts every declaration of its list whatever the store refused, does
\* not raise, and leaves every declaration that was not refused in the store.
C21_IndependentDeclarations ==
    schema.op \in {"create_github_schema", "create_schema"}
        => /\ schema.attempted = DeclarationsOf(schema.op)
           /\ schema.raised = None
           /\ Range(DeclarationsOf(schema.op)) \ schema.refused \subseteq schema.declared

(***************************************************************************)
(* Conversion of a response (SpecConvert).                                 *)
(***************************************************************************)
\* C22: response-to-domain conversion.  A successful to_issue gives as many
\* labels and assignees as the response has sub-objects, the i-th label being
\* the name of the i-th label sub-object and the i-th assignee the login of
\* the i-th assignee sub-object; id, number, title and state are those of the
\* response; closed_at is None when the response has none; the response is
\* as it was.
C22_Conversion ==
    (conv.op = "to_issue" /\ conv.result.error = None)
        => LET r == conv.response
               issue == conv.result.value
           IN  /\ Len(issue.labels) = Len(r.labels)
               /\ \A i \in DOMAIN r.labels :
                     "name" \in DOMAIN r.labels[i] => issue.labels[i] = r.labels[i].name
               /\ Len(issue.assignees) = Len(r.assignees)
               /\ \A i \in DOMAIN r.assignees : issue.assignees[i] = r.assignees[i].login
               /\ issue.id = r.id /\ issue.number = r.number
               /\ issue.title = r.title /\ issue.state = r.state
               /\ r.closed_at = None => issue.closed_at = None
               /\ conv.self = r

\* an open issue with the labels bug and ui and the assignees alice and bob
\* was converted
C22_Witness ==
    /\ conv.op = "to_issue"
    /\ conv.result.error = None
    /\ conv.response.closed_at = None
    /\ conv.result.value.labels = <<"bug", "ui">>
    /\ conv.result.value.assignees = <<"alice", "bob">>

(***************************************************************************)
(* The backoff of the retry wrapper (SpecRetry).                           *)
(***************************************************************************)
\* the i-th call of the operation raised a rate-limit error or a server error
RetryableAt(i) ==
    /\ i \in 1..Len(retry.outcomes)
    /\ retry.outcomes[i].kind = "GithubException"
    /\ \/ retry.outcomes[i].status = 403 /\ retry.outcomes[i].rate_limit_text
       \/ retry.outcomes[i].status >= 500

\* C23: backoff schedule.  The sleep made after failed attempt number k
\* (counting from 0) that raised a rate-limit error or a server error lasts
\* GITHUB_RETRY_DELAY * 2^k seconds, whichever of the two errors it was: 1,
\* 2 and 4 seconds with the defaults.
C23_BackoffSchedule ==
    \A k \in 0..(GITHUB_MAX_RETRIES - 1) :
        RetryableAt(k + 1)
            => /\ Len(retry.sleeps) >= k + 1
               /\ retry.sleeps[k + 1] = GITHUB_RETRY_DELAY * 2^k
               /\ (GITHUB_RETRY_DELAY = 1 /\ k = 0) => retry.sleeps[k + 1] = 1
               /\ (GITHUB_RETRY_DELAY = 1 /\ k = 1) => retry.sleeps[k + 1] = 2
               /\ (GITHUB_RETRY_DELAY = 1 /\ k = 2) => retry.sleeps[k + 1] = 4

\* a rate-limit error, a server error and a rate-limit error again: the
\* sleeps were 1, 2 and 4 seconds
C23_Witness ==
    /\ Len(retry.outcomes) = 3
    /\ retry.outcomes[1].status = 403 /\ RetryableAt(1)
    /\ retry.outcomes[2].status = 500
    /\ retry.outcomes[3].status = 403 /\ RetryableAt(3)
    /\ retry.sleeps = <<1, 2, 4>>

(***************************************************************************)
(* Architecture hierarchy (SpecArch).                                      *)
(***************************************************************************)
\* C24: architecture hierarchy edges.  After a call of
\* create_c4_relationships that returned, every Container, Component or Code
\* node whose parent-name field equals the name of a node of the next-higher
\* level has exactly one BELONGS_TO edge to that node, and a further call
\* would add no edge; in every state no ordered pair of nodes has more than
\* one edge.
C24_HierarchyEdges ==
    /\ \A e \in DOMAIN c4.edges : c4.edges[e] = 1
    /\ (c4.op = "create_c4_relationships" /\ c4.raised = None)
          => /\ \A i, j \in DOMAIN c4.nodes :
                   (/\ \E q \in Range(relationship_queries) :
                          c4.nodes[i].label = q.child /\ c4.nodes[j].label = q.parent
                    /\ c4.nodes[i].parent = c4.nodes[j].name)
                       => BagIn(<<i, j>>, c4.edges) /\ c4.edges[<<i, j>>] = 1
             /\ create_c4_relationships(c4.nodes, c4.edges, 1, 0).edges = c4.edges

\* a Context, a Container in it and a Component in the Container: after the
\* call the store holds the two edges of the chain
C24_Witness ==
    /\ c4.op = "create_c4_relationships"
    /\ c4.raised = None
    /\ Len(c4.nodes) = 3
    /\ BagCardinality(c4.edges) = 2
    /\ \E i, j, k \in DOMAIN c4.nodes :
          /\ c4.nodes[i].label = "Component"
          /\ c4.nodes[j].label = "Container"
          /\ c4.nodes[k].label = "Context"
          /\ BagIn(<<i, j>>, c4.edges)
          /\ BagIn(<<j, k>>, c4.edges)

(***************************************************************************)
(* Bounds of the retry wrapper (SpecRetry, SpecRetryLive).                 *)
(***************************************************************************)
\* the operation was called at most GITHUB_MAX_RETRIES times, every call but
\* the last one failed, and the wrapper has returned exactly when the last
\* call succeeded
BoundedCalls ==
    /\ retry.calls <= GITHUB_MAX_RETRIES
    /\ retry.calls = Len(retry.outcomes)
    /\ \A i \in 1..(Len(retry.outcomes) - 1) : retry.outcomes[i].kind # "ok"
    /\ retry.pc = "returned"
          <=> (retry.outcomes # <<>> /\ retry.outcomes[Len(retry.outcomes)].kind = "ok")
    /\ retry.calls = GITHUB_MAX_RETRIES => retry.pc \in {"returned", "raised"}

\* C25: bounded retries and termination.  In every run the operation is
\* called at most GITHUB_MAX_RETRIES times and never again after a success,
\* and a wrapper that is running ends, returning or raising.
C25_BoundedRetries ==
    /\ []BoundedCalls
    /\ (retry.pc = "running") ~> (retry.pc \in {"returned", "raised"})

\* the wrapper has ended after exactly GITHUB_MAX_RETRIES calls, the last of
\* which succeeded
C25_Witness ==
    /\ retry.pc = "returned"
    /\ retry.calls = GITHUB_MAX_RETRIES
    /\ retry.outcomes[GITHUB_MAX_RETRIES].kind = "ok"

\* C26: no backoff sleep after the final attempt.  The wrapper makes at most
\* GITHUB_MAX_RETRIES - 1 backoff sleeps, and one that has ended by raising
\* made fewer sleeps than calls: its last failed attempt was followed by no
\* sleep.
C26_NoSleepAfterFinalAttempt ==
    /\ Len(retry.sleeps) <= GITHUB_MAX_RETRIES - 1
    /\ retry.pc = "raised" => Len(retry.sleeps) < retry.calls

(***************************************************************************)
(* Frame of a failed attempt (SpecRetry).                                  *)
(***************************************************************************)
\* the cache as the last attempt found it is the cache now
CacheAsFound ==
    /\ _rate_limit_remaining = retry.gate[1].remaining
    /\ _rate_limit_reset = retry.gate[1].reset

\* a step that changes the cache is the return of a successful attempt
CacheChangeIsSuccess ==
    <<_rate_limit_remaining, _rate_limit_reset>>' # <<_rate_limit_remaining, _rate_limit_reset>>
        => /\ retry.pc = "running"
           /\ retry'.pc = "returned"
           /\ retry'.outcomes[Len(retry'.outcomes)].kind = "ok"

\* C27: a failed attempt leaves the rate-limit cache unchanged.  After an
\* attempt that raised, retryable or not, the cached remaining counter and
\* reset time are the ones the attempt started with; every step that changes
\* them is a successful attempt.
C27_FailedAttemptKeepsCache ==
    /\ []((retry.outcomes # <<>> /\ retry.outcomes[Len(retry.outcomes)].kind # "ok")
            => CacheAsFound)
    /\ [][CacheChangeIsSuccess]_vars

\* with a known cache, an attempt has failed
C27_Witness ==
    /\ retry.outcomes # <<>>
    /\ retry.outcomes[Len(retry.outcomes)].kind = "GithubException"
    /\ _rate_limit_remaining = <<7>>
    /\ _rate_limit_reset = <<6>>

(***************************************************************************)
(* Parents of a child node (Spec).                                         *)
(***************************************************************************)
\* the edges of type `type` going out of the node with label `label` and id
\* `id`, each as often as the store holds it
OutgoingEdges(label, type, id) ==
    BagCardinality([e \in {x \in DOMAIN graph.rel :
                              x.label = label /\ x.type = type /\ x.from = id}
                      |-> graph.rel[e]])

C29_SingleParentEpic ==
    \A n \in DOMAIN graph.story :
        BagCardinality([e \in StoryEdges(graph, n.key) |-> graph.jrel[e]]) <= 1

\* the number of statements of one kind among the statements that ran
CountOf(statements, kind) ==
    Cardinality({i \in DOMAIN statements : statements[i] = kind})

\* the errors of the steps before the store: a search or a parse
BeforeStore == {"HTTPError", "KeyError"}

\* C30 (fetch-all-then-store, never raises), amended: a collection always
\* returns a result, with success = False exactly if it carries the error of
\* the step that failed; if a fetch or a parse failed, no statement ran and
\* the graph is as it was; if it returned success = True, every statement
\* ran, every epic and story it parsed is a node of the graph, and the
\* reported counts are the numbers of Epic and Story upsert statements, one
\* per entry of the fetched lists: a story listed under two epics is counted
\* twice and stored as one node.
C30_FetchAllThenStore ==
    last.op = "jira_collection"
        => LET r == last.record
               st == last.statements
           IN  /\ r.success = (r.error = None)
               /\ r.error \in BeforeStore => st = <<>> /\ last.existed
               /\ r.success
                     => /\ last.id # <<>>
                        /\ CountOf(st, "epic") = r.epics_collected[1]
                        /\ CountOf(st, "story") = r.stories_collected[1]
                        /\ \A k \in last.id[1].epics : \E n \in DOMAIN graph.epic : n.key = k
                        /\ \A k \in last.id[1].stories :
                              \E n \in DOMAIN graph.story : n.key = k
                        /\ r.epics_collected[1] = Cardinality(last.id[1].epics)
                        /\ r.stories_collected[1] >= Cardinality(last.id[1].stories)

\* a collection returned success = True after a story was listed under two
\* epics: two Story statements ran, two stories are reported, one is stored
C30_Witness ==
    /\ last.op = "jira_collection"
    /\ last.record.success
    /\ last.record.epics_collected = <<2>>
    /\ last.record.stories_collected = <<2>>
    /\ CountOf(last.statements, "story") = 2
    /\ Cardinality(DOMAIN graph.story) = 1

\* C30, as claimed: the counts a successful collection reports are the
\* numbers of epics and of stories it stored.
C30_CountsEqualStored ==
    (last.op = "jira_collection" /\ last.record.success)
        => /\ last.record.epics_collected[1] = Cardinality(last.id[1].epics)
           /\ last.record.stories_collected[1] = Cardinality(last.id[1].stories)
====
